---- MODULE Spec2Model ----
(***************************************************************************)
(* X.500 Distinguished Name parser and renderer of ncrypt/dlggpgme.c.      *)
(*                                                                         *)
(* Strings are sequences of byte values (ASCII codes).  The memory that    *)
(* holds a C string is the string, its terminating NUL and whatever bytes  *)
(* follow the terminator (junk): a read past the NUL is a read of junk.    *)
(***************************************************************************)
EXTENDS Integers, Sequences, FiniteSets, TLC

VARIABLES input, junk, str, heap, array, cells, arrayidx, arraysize,
          pc, ret, maxread, last, dn, charset, out, out2

\* The AliasViewArray of alias/gui.c and the last call made on it.
VARIABLES ava, acall, aret

dnVars == <<input, junk, str, heap, array, cells, arrayidx, arraysize,
            pc, ret, maxread, last, dn, charset, out, out2>>

\* Two keys and the last comparison made of them.
VARIABLES ka, kb, cmp

\* dlg_select_gpgme_key: the key table, the menu, the locals of the
\* function and what the last operation did.
\* (k_ret is the local k, a name bound elsewhere in this module.)
VARIABLES key_table, current, done, k_ret, forced_valid, OptPgpCheckTrust,
          dstate, dlgop
\* Its argument keys (keys_in: keys is a name bound elsewhere), the option
\* pgp_show_unusable, and whether the build is one for GPGME before 1.11.0.
VARIABLES keys_in, c_pgp_show_unusable, gpgme_old

\* verify_key: the keys GPGME knows, the key at hand, the references taken
\* and released, the depth left, what was written, the place in the code.
VARIABLES keyring, vk, vrefs, maxdepth, vout, vpc

aliasVars == <<ava, acall, aret>>

cmpVars == <<ka, kb, cmp>>

dlgVars == <<key_table, current, done, k_ret, forced_valid, OptPgpCheckTrust,
             dstate, dlgop, keys_in, c_pgp_show_unusable, gpgme_old>>

chainVars == <<keyring, vk, vrefs, maxdepth, vout, vpc>>

\* What the DN parser and renderer leave alone.
otherVars == <<aliasVars, cmpVars, dlgVars, chainVars>>

vars == <<dnVars, otherVars>>

parseVars == <<input, junk, str, heap, array, cells, arrayidx, arraysize,
               ret, maxread, last>>

----------------------------------------------------------------------------
(* Characters *)

Ascii == ("A" :> 65) @@ ("4" :> 52) @@ ("N" :> 78) @@ ("=" :> 61) @@
         ("#" :> 35) @@ ("," :> 44) @@ (" " :> 32) @@ ("\\" :> 92) @@
         ("\"" :> 34) @@ ("+" :> 43) @@ (";" :> 59) @@ ("<" :> 60) @@
         (">" :> 62) @@ ("(" :> 40) @@ (")" :> 41) @@ ("C" :> 67) @@
         ("O" :> 79) @@ ("U" :> 85) @@ ("S" :> 83) @@ ("T" :> 84) @@
         ("R" :> 82) @@ ("E" :> 69) @@ ("L" :> 76) @@ ("X" :> 88) @@
         ("Y" :> 89) @@ ("B" :> 66)

\* The byte string of a tuple of one-character strings.
S(t) == [i \in 1..Len(t) |-> Ascii[t[i]]]

NUL == 0
NULL == 0

\* An entry of a freshly allocated array holds no defined pointer.
UNINIT == -1

\* isxdigit() in the C locale
IsXDigit(c) == \/ (c >= 48 /\ c <= 57)
               \/ (c >= 65 /\ c <= 70)
               \/ (c >= 97 /\ c <= 102)

\* The value of one hexadecimal digit.
HexVal(c) == IF c <= 57 THEN c - 48 ELSE IF c <= 70 THEN c - 55 ELSE c - 87

Max(a, b) == IF a >= b THEN a ELSE b

----------------------------------------------------------------------------
(* Bounds of the model *)

\* Longest free-form input handed to parse_dn.
MaxTail == 3
\* Longest free-form text after a lead that opens a value ("N=", "N=#").
MaxValue == 4
\* Number of well-formed components "N=A," that may lead an input.
MaxRep == 7
\* Longest free-form text of an input that starts with those components.
MaxRepTail == 2
\* Number of bytes after the terminating NUL whose content is arbitrary.
JunkLen == 1

Alphabet == {Ascii["A"], Ascii["4"], Ascii["N"], Ascii["="], Ascii["#"],
             Ascii[","], Ascii[" "], Ascii["\\"], Ascii["\""]}

JunkBytes == {NUL, Ascii["A"], Ascii["N"]}

JunkSet == [1..JunkLen -> JunkBytes]

Strings(n) == UNION {[1..k -> Alphabet] : k \in 0..n}

RepUnit == S(<<"N", "=", "A", ",">>)

RECURSIVE Rep(_)
Rep(r) == IF r = 0 THEN <<>> ELSE RepUnit \o Rep(r - 1)

\* What precedes the free-form text: nothing, or the start of a component
\* up to its value.
Leads(r) == IF r = 0
            THEN {<<>>, S(<<"N", "=">>), S(<<"N", "=", "#">>)}
            ELSE {<<>>, S(<<"N", "=">>)}

TextLimit(r, l) == IF r > 0 THEN MaxRepTail
                   ELSE IF l = <<>> THEN MaxTail ELSE MaxValue

----------------------------------------------------------------------------
(* The parts of the program a specification leaves idle *)

AliasIdle ==
  /\ ava = <<>>
  /\ acall = [op |-> "none"]
  /\ aret = 0

CmpIdle ==
  /\ ka = <<>>
  /\ kb = <<>>
  /\ cmp = [fn |-> "none"]

DlgIdle ==
  /\ key_table = <<>>
  /\ current = 0
  /\ done = FALSE
  /\ k_ret = <<>>
  /\ forced_valid = 0
  /\ OptPgpCheckTrust = FALSE
  /\ dstate = "idle"
  /\ dlgop = [op |-> "none"]
  /\ keys_in = <<>>
  /\ c_pgp_show_unusable = FALSE
  /\ gpgme_old = FALSE

ChainIdle ==
  /\ keyring = <<>>
  /\ vk = 0
  /\ vrefs = <<>>
  /\ maxdepth = 0
  /\ vout = <<>>
  /\ vpc = "idle"

OtherIdle == AliasIdle /\ CmpIdle /\ DlgIdle /\ ChainIdle

DnIdle ==
  /\ input = <<>>
  /\ junk = <<>>
  /\ str = 1
  /\ heap = <<>>
  /\ array = 0
  /\ cells = <<>>
  /\ arrayidx = 0
  /\ arraysize = 0
  /\ pc = "idle"
  /\ ret = 0
  /\ maxread = 0
  /\ last = [called |-> FALSE]
  /\ dn = <<>>
  /\ charset = "utf-8"
  /\ out = <<>>
  /\ out2 = <<>>

----------------------------------------------------------------------------
(* Memory and heap *)

\* The byte at index i of memory m; the bytes after the junk are zero.
Rd(m, i) == IF i >= 1 /\ i <= Len(m) THEN m[i] ELSE NUL

Memory(in, j) == in \o <<NUL>> \o j

\* mutt_mem_malloc(): a new block; its id is its index in the heap.
Malloc(h, kind, data) == Append(h, [kind |-> kind, data |-> data, frees |-> 0])

\* FREE(&p): free(p) unless p is NULL.
FreePtr(h, p) == IF p = NULL THEN h ELSE [h EXCEPT ![p].frees = @ + 1]

NullEntry == [key |-> NULL, value |-> NULL]
UninitEntry == [key |-> UNINIT, value |-> UNINIT]

----------------------------------------------------------------------------
(* parse_dn_part *)

\* IsEscapable without the space.
IsEscapable_no_space(c) == c \in {Ascii[","], Ascii["="], Ascii["+"],
                                  Ascii["<"], Ascii[">"], Ascii["#"],
                                  Ascii[";"], Ascii["\\"], Ascii["\""]}

IsEscapable(c) == c \in {Ascii[","], Ascii["="], Ascii["+"], Ascii["<"],
                         Ascii[">"], Ascii["#"], Ascii[";"], Ascii["\\"],
                         Ascii["\""], Ascii[" "]}

IsDelimiter(c) == c \in {Ascii[","], Ascii["="], Ascii["+"], Ascii["<"],
                         Ascii[">"], Ascii["#"], Ascii[";"]}

\* Sscanf2hhx with the two digits taken in the other order.
Sscanf2hhx_swapped(m, s) ==
  IF IsXDigit(Rd(m, s + 1))
  THEN (16 * HexVal(Rd(m, s + 1)) + HexVal(Rd(m, s))) % 256
  ELSE HexVal(Rd(m, s))

\* sscanf(s, "%2hhx", p) where s[0] is a hex digit: at most two hex digits
\* are converted.  (No input of the model holds 'x' or 'X', the one
\* character that sscanf would treat specially after a '0'.)
Sscanf2hhx(m, s) ==
  IF IsXDigit(Rd(m, s + 1))
  THEN (16 * HexVal(Rd(m, s)) + HexVal(Rd(m, s + 1))) % 256
  ELSE HexVal(Rd(m, s))

\* ScanType that takes a ',' for the end of the type as well.
RECURSIVE ScanType_comma(_, _)
ScanType_comma(m, s) ==
  IF Rd(m, s) # NUL /\ Rd(m, s) # Ascii["="] /\ Rd(m, s) # Ascii[","]
  THEN ScanType_comma(m, s + 1) ELSE s

\* for (s = str + 1; (s[0] != '\0') && (s[0] != '='); s++)
RECURSIVE ScanType(_, _)
ScanType(m, s) ==
  IF Rd(m, s) # NUL /\ Rd(m, s) # Ascii["="] THEN ScanType(m, s + 1) ELSE s

\* for (s = str; isxdigit(*s); s++) s++;
RECURSIVE HexScan(_, _)
HexScan(m, s) == IF IsXDigit(Rd(m, s)) THEN HexScan(m, s + 2) ELSE s

\* for (s1 = str; n; s1 += 2, n--) sscanf(s1, "%2hhx", p++);
HexDecode(m, s, n) == [k \in 1..n |-> Sscanf2hhx(m, s + 2 * (k - 1))]

\* The counting pass over a quoted string: ok, where it stopped, the number
\* of decoded bytes and the highest index read.
RECURSIVE ScanValue(_, _, _)
ScanValue(m, s, n) ==
  LET c == Rd(m, s) IN
  IF c = NUL THEN [ok |-> TRUE, s |-> s, n |-> n, mr |-> s]
  ELSE IF c = Ascii["\\"] THEN
    LET d == Rd(m, s + 1) IN
    IF IsEscapable(d) THEN ScanValue(m, s + 2, n + 1)
    ELSE IF IsXDigit(d) /\ IsXDigit(Rd(m, s + 2)) THEN ScanValue(m, s + 3, n + 1)
    ELSE [ok |-> FALSE, s |-> s + 1, n |-> n,
          mr |-> IF IsXDigit(d) THEN s + 2 ELSE s + 1]
  ELSE IF c = Ascii["\""] THEN [ok |-> FALSE, s |-> s, n |-> n, mr |-> s]
  ELSE IF IsDelimiter(c) THEN [ok |-> TRUE, s |-> s, n |-> n, mr |-> s]
  ELSE ScanValue(m, s + 1, n + 1)

\* The decoding pass: n bytes are written; val is the buffer, s the place
\* the pass stopped.
RECURSIVE DecodeValue(_, _, _, _)
DecodeValue(m, s, n, acc) ==
  IF n = 0 THEN [val |-> acc, s |-> s]
  ELSE IF Rd(m, s) = Ascii["\\"] THEN
    IF IsXDigit(Rd(m, s + 1))
    THEN DecodeValue(m, s + 3, n - 1, Append(acc, Sscanf2hhx(m, s + 1)))
    ELSE DecodeValue(m, s + 2, n - 1, Append(acc, Rd(m, s + 1)))
  ELSE DecodeValue(m, s + 1, n - 1, Append(acc, Rd(m, s)))

\* What one call of parse_dn_part did.  ok: a pointer was returned (s);
\* hasKey, hasValue: the buffers it allocated, with their contents;
\* hex: the value was a '#' string; vstart: where the value text starts;
\* n: the byte count of the first pass; stop: where the first pass stopped;
\* mr: the highest index read.
PartResult(ok, s, hasKey, key, hasValue, value, hex, vstart, n, stop, mr) ==
  [called |-> TRUE, ok |-> ok, s |-> s, hasKey |-> hasKey, key |-> key,
   hasValue |-> hasValue, value |-> value, hex |-> hex, vstart |-> vstart,
   n |-> n, stop |-> stop, mr |-> mr]

NoPart == [called |-> FALSE, ok |-> FALSE, s |-> 0, hasKey |-> FALSE,
           key |-> <<>>, hasValue |-> FALSE, value |-> <<>>, hex |-> FALSE,
           vstart |-> 0, n |-> 0, stop |-> 0, mr |-> 0]

parse_dn_part(m, p) ==
  LET s == ScanType(m, p + 1)
      n == s - p
      key == [i \in 1..n |-> Rd(m, p + i - 1)]
      v == s + 1
  IN
  IF Rd(m, s) = NUL
  THEN PartResult(FALSE, 0, FALSE, <<>>, FALSE, <<>>, FALSE, 0, 0, 0, s)
  ELSE IF n = 0
  THEN PartResult(FALSE, 0, FALSE, <<>>, FALSE, <<>>, FALSE, 0, 0, 0, s)
  ELSE IF Rd(m, v) = Ascii["#"]
  THEN LET e == HexScan(m, v + 1)
           hn == e - (v + 1)
       IN IF hn = 0 \/ hn % 2 = 1
          THEN PartResult(FALSE, 0, TRUE, key, FALSE, <<>>, TRUE, v, hn, e, e)
          ELSE PartResult(TRUE, e, TRUE, key, TRUE,
                          HexDecode(m, v + 1, hn \div 2), TRUE, v,
                          hn \div 2, e, e)
  ELSE LET p1 == ScanValue(m, v, 0)
           d == DecodeValue(m, v, p1.n, <<>>)
       IN IF ~p1.ok
          THEN PartResult(FALSE, 0, TRUE, key, FALSE, <<>>, FALSE, v,
                          p1.n, p1.s, Max(v, p1.mr))
          ELSE PartResult(TRUE, d.s, TRUE, key, TRUE, d.val, FALSE, v,
                          p1.n, p1.s, Max(v, p1.mr))

----------------------------------------------------------------------------
(* parse_dn *)

\* while (str[0] == ' ') str++;
RECURSIVE SkipSpaces(_, _)
SkipSpaces(m, s) == IF Rd(m, s) = Ascii[" "] THEN SkipSpaces(m, s + 1) ELSE s

\* AtEnd without the break after the spaces.
AtEnd_no_break(m, s) == Rd(m, s) = NUL

\* The loop of parse_dn is left: the while condition or the break.
AtEnd(m, s) == Rd(m, s) = NUL \/ Rd(m, SkipSpaces(m, s)) = NUL

\* GrowCells that allocates one entry less.
GrowCells_short(cs, idx, size) ==
  [i \in 1..size |-> IF i <= idx THEN cs[i] ELSE UninitEntry]

\* The copy into a larger array: entries below arrayidx are copied, the
\* others are not initialised.
GrowCells(cs, idx, size) ==
  [i \in 1..(size + 1) |-> IF i <= idx THEN cs[i] ELSE UninitEntry]

\* IsSeparatorOrEnd that takes every delimiter for a separator.
IsSeparatorOrEnd_any_delimiter(c) == c = NUL \/ IsDelimiter(c)

IsSeparatorOrEnd(c) == c \in {NUL, Ascii[","], Ascii[";"], Ascii["+"]}

\* FreeEntry that leaves the value.
FreeEntry_key_only(h, e) == FreePtr(h, e.key)

\* FREE(&array[i].key); FREE(&array[i].value);
FreeEntry(h, e) == FreePtr(FreePtr(h, e.key), e.value)

\* for (int i = 0; i < arrayidx; i++) { ... }
RECURSIVE FreeEntries(_, _, _)
FreeEntries(h, cs, n) ==
  IF n = 0 THEN h ELSE FreeEntry(FreeEntries(h, cs, n - 1), cs[n])

\* Lines 528-535, the failure exit: the heap it leaves.
Failure(h, cs, n, a) == FreePtr(FreeEntries(h, cs, n), a)

\* The junk bytes a pass of the loop may meet.  Bytes already read stay what
\* they were; when the pass reads nothing after the NUL (the reads up to the
\* first one after the NUL do not depend on the junk) one choice stands for
\* all.
JunkChoices(in, j, s) ==
  IF j # <<>> THEN {j}
  ELSE LET m0 == Memory(in, [i \in 1..JunkLen |-> NUL])
           r0 == parse_dn_part(m0, SkipSpaces(m0, s))
       IN IF r0.mr > Len(in) + 1 THEN JunkSet
          ELSE {[i \in 1..JunkLen |-> NUL]}

\* Lines 492-523, and 528-535 when it fails: one pass of the loop, which
\* parses a component.
ParseDnComponent ==
  /\ pc = "loop"
  /\ \E j \in JunkChoices(input, junk, str) :
       LET m == Memory(input, j)
           s1 == SkipSpaces(m, str)
           grow == arrayidx >= arraysize
           size1 == IF grow THEN arraysize + 5 ELSE arraysize
           h1 == IF grow
                 THEN FreePtr(Malloc(heap, "array", <<>>), array)
                 ELSE heap
           a1 == IF grow THEN Len(heap) + 1 ELSE array
           c1 == IF grow THEN GrowCells(cells, arrayidx, size1) ELSE cells
           r == parse_dn_part(m, s1)
           h2 == IF r.hasKey THEN Malloc(h1, "key", r.key) ELSE h1
           kp == IF r.hasKey THEN Len(h2) ELSE NULL
           h3 == IF r.hasValue THEN Malloc(h2, "value", r.value) ELSE h2
           vp == IF r.hasValue THEN Len(h3) ELSE NULL
           c2 == [c1 EXCEPT ![arrayidx + 1] = [key |-> kp, value |-> vp]]
           s2 == SkipSpaces(m, r.s)
           mr == Max(maxread, IF r.ok THEN Max(r.mr, s2) ELSE r.mr)
       IN /\ ~AtEnd(m, str)
          /\ arraysize' = size1
          /\ arrayidx' = arrayidx + 1
          /\ last' = r
          /\ maxread' = mr
          /\ junk' = IF mr > Len(input) + 1 THEN j ELSE junk
          /\ IF r.ok /\ IsSeparatorOrEnd(Rd(m, s2))
             THEN /\ str' = IF Rd(m, s2) # NUL THEN s2 + 1 ELSE s2
                  /\ heap' = h3
                  /\ array' = a1
                  /\ cells' = c2
                  /\ pc' = "loop"
                  /\ ret' = ret
             ELSE /\ str' = str
                  /\ heap' = Failure(h3, c2, arrayidx + 1, a1)
                  /\ array' = NULL
                  /\ cells' = <<>>
                  /\ pc' = "returned"
                  /\ ret' = NULL
  /\ UNCHANGED <<input, dn, charset, out, out2>>
  /\ UNCHANGED otherVars

\* Lines 492-497 and 524-526: the loop is left, the sentinel is written,
\* the array is returned.
ParseDnReturn ==
  /\ pc = "loop"
  /\ LET m == Memory(input, junk) IN
       /\ AtEnd(m, str)
       /\ maxread' = Max(maxread,
                         IF Rd(m, str) = NUL THEN str ELSE SkipSpaces(m, str))
  /\ cells' = [cells EXCEPT ![arrayidx + 1] = NullEntry]
  /\ ret' = array
  /\ pc' = "returned"
  /\ UNCHANGED <<input, junk, str, heap, array, arrayidx, arraysize, last,
                 dn, charset, out, out2>>
  /\ UNCHANGED otherVars

----------------------------------------------------------------------------
(* print_utf8, print_dn_part, print_dn_parts *)

\* What is written to fp is kept as the sequence of the writes: the text of
\* each write and, for a value, the index of the attribute it belongs to.
Write(k, i, text) == [k |-> k, i |-> i, text |-> text]

Comma == Write("comma", 0, S(<<",", " ">>))
Plus == Write("plus", 0, S(<<" ", "+", " ">>))
Open == Write("open", 0, S(<<"(">>))
Close == Write("close", 0, S(<<")">>))

\* The bytes fp holds after the writes w.
RECURSIVE Flat(_)
Flat(w) == IF w = <<>> THEN <<>> ELSE Head(w).text \o Flat(Tail(w))

\* strlen(): the bytes before the first NUL.
RECURSIVE CStr(_)
CStr(s) ==
  IF s = <<>> \/ Head(s) = NUL THEN <<>> ELSE <<Head(s)>> \o CStr(Tail(s))

\* mutt_ch_convert_string(&tstr, "utf-8", c_charset, ...): a UTF-8 string in
\* the display character set.  ASCII is kept; towards a character set other
\* than UTF-8 each other character (a lead byte and its continuation bytes)
\* becomes one '?'.
RECURSIVE ConvertString(_, _)
ConvertString(s, cs) ==
  IF s = <<>> THEN <<>>
  ELSE IF cs = "utf-8" \/ Head(s) < 128
       THEN <<Head(s)>> \o ConvertString(Tail(s), cs)
  ELSE IF Head(s) < 192 THEN ConvertString(Tail(s), cs)
  ELSE <<63>> \o ConvertString(Tail(s), cs)

\* print_utf8(fp, buf, len) with len = strlen(buf)
print_utf8(buf, cs) == CStr(ConvertString(CStr(buf), cs))

\* strcmp(a, b) == 0
StrEq(a, b) == CStr(a) = CStr(b)

\* print_dn_part(fp, dn, key), dn pointing at entry i of the array d: the
\* writes w and the returned flag any.
RECURSIVE PrintPartLoop(_, _, _, _, _, _)
PrintPartLoop(d, i, key, cs, any, w) ==
  IF i > Len(d) THEN [any |-> any, w |-> w]
  ELSE IF StrEq(d[i].key, key)
  THEN PrintPartLoop(d, i + 1, key, cs, TRUE,
         (IF any THEN Append(w, Plus) ELSE w)
           \o <<Write("val", i, print_utf8(d[i].value, cs))>>)
  ELSE PrintPartLoop(d, i + 1, key, cs, any, w)

\* print_dn_part without its " + ": the flag any is taken as never set.
print_dn_part_no_plus(d, i, key, cs) ==
  LET r == PrintPartLoop(d, i, key, cs, FALSE, <<>>)
  IN [any |-> r.any, w |-> SelectSeq(r.w, LAMBDA x : x.k # "plus")]

print_dn_part(d, i, key, cs) == PrintPartLoop(d, i, key, cs, FALSE, <<>>)

\* stdpart with its first two entries exchanged.
stdpart_swapped == <<S(<<"O", "U">>), S(<<"C", "N">>), S(<<"O">>),
                     S(<<"S", "T", "R", "E", "E", "T">>), S(<<"L">>),
                     S(<<"S", "T">>), S(<<"C">>)>>

stdpart == <<S(<<"C", "N">>), S(<<"O", "U">>), S(<<"O">>),
             S(<<"S", "T", "R", "E", "E", "T">>), S(<<"L">>),
             S(<<"S", "T">>), S(<<"C">>)>>

\* The first loop of print_dn_parts, at stdpart[i].
RECURSIVE PrintStdLoop(_, _, _, _, _)
PrintStdLoop(d, i, cs, any, w) ==
  IF i > Len(stdpart) THEN [any |-> any, w |-> w]
  ELSE LET r == print_dn_part(d, 1, stdpart[i], cs)
       IN PrintStdLoop(d, i + 1, cs, r.any,
                       (IF any THEN Append(w, Comma) ELSE w) \o r.w)

\* for (i = 0; stdpart[i]; i++) if (strcmp(dn->key, stdpart[i]) == 0) break;
\* !stdpart[i]: the key is none of the standard ones.
NotStd(key) == \A i \in 1..Len(stdpart) : ~StrEq(key, stdpart[i])

\* The second loop of print_dn_parts, at entry i.
RECURSIVE PrintRestLoop(_, _, _, _, _, _)
PrintRestLoop(d, i, cs, any, any2, w) ==
  IF i > Len(d) THEN IF any2 THEN Append(w, Close) ELSE w
  ELSE IF NotStd(d[i].key)
  THEN LET w1 == IF any THEN Append(w, Comma) ELSE w
           w2 == IF ~any2 THEN Append(w1, Open) ELSE w1
           r == print_dn_part(d, i, d[i].key, cs)
       IN PrintRestLoop(d, i + 1, cs, r.any, TRUE, w2 \o r.w)
  ELSE PrintRestLoop(d, i + 1, cs, any, any2, w)

print_dn_parts(d, cs) ==
  LET r == PrintStdLoop(d, 1, cs, FALSE, <<>>)
  IN PrintRestLoop(d, 1, cs, r.any, FALSE, r.w)

\* The entries of a returned array up to the sentinel, with the strings
\* their pointers lead to.
RECURSIVE DnOf(_, _, _)
DnOf(cs, h, i) ==
  IF cs[i].key = NULL THEN <<>>
  ELSE <<[key |-> h[cs[i].key].data, value |-> h[cs[i].value].data]>>
       \o DnOf(cs, h, i + 1)

----------------------------------------------------------------------------
(* parse_dn on a string.  The inputs are free-form text, alone or after a  *)
(* lead: MaxRep well-formed components (they fill the first array) and the *)
(* start of a component up to its value.  The first state is the one in    *)
(* which the loop of parse_dn is entered (lines 489-491).                  *)

Init ==
  /\ \E r \in {0, MaxRep} : \E l \in Leads(r) :
       \E t \in Strings(TextLimit(r, l)) : input = Rep(r) \o l \o t
  /\ junk = <<>>
  /\ str = 1
  /\ heap = Malloc(<<>>, "array", <<>>)
  /\ array = 1
  /\ cells = [i \in 1..8 |-> UninitEntry]
  /\ arrayidx = 0
  /\ arraysize = 7
  /\ pc = "loop"
  /\ ret = UNINIT
  /\ maxread = 0
  /\ last = NoPart
  /\ dn = <<>>
  /\ charset = "utf-8"
  /\ out = <<>>
  /\ out2 = <<>>
  /\ OtherIdle

Next == ParseDnComponent \/ ParseDnReturn

Spec == Init /\ [][Next]_vars

----------------------------------------------------------------------------
(* print_dn_parts on an attribute sequence *)

\* Longest attribute sequence handed to print_dn_parts.
MaxDn == 3

Keys == {stdpart[1], stdpart[2], stdpart[3], stdpart[7],
         S(<<"X">>), S(<<"Y">>)}

\* "A" and U+00E9 in UTF-8
Values == {S(<<"A">>), <<195, 169>>}

DnSeqs(n, keys, vals) ==
  UNION {[1..k -> [key : keys, value : vals]] : k \in 0..n}

InitDn(seqs) ==
  /\ dn \in seqs
  /\ charset \in {"utf-8", "us-ascii"}
  /\ input = <<>>
  /\ junk = <<>>
  /\ str = 1
  /\ heap = <<>>
  /\ array = NULL
  /\ cells = <<>>
  /\ arrayidx = 0
  /\ arraysize = 0
  /\ pc = "print"
  /\ ret = UNINIT
  /\ maxread = 0
  /\ last = NoPart
  /\ out = <<>>
  /\ out2 = <<>>
  /\ OtherIdle

PrintDnParts ==
  /\ pc = "print"
  /\ out' = print_dn_parts(dn, charset)
  /\ pc' = "printed"
  /\ UNCHANGED <<parseVars, dn, charset, out2>>
  /\ UNCHANGED otherVars

InitPrint == InitDn(DnSeqs(MaxDn, Keys, Values))

NextPrint == PrintDnParts

SpecPrint == InitPrint /\ [][NextPrint]_vars

----------------------------------------------------------------------------
(* Round trip: print_dn_parts, parse_dn on what was written, and            *)
(* print_dn_parts on what was parsed.                                      *)

\* Longest attribute sequence of a round trip.
MaxRt == 3

IsStd(key) == ~NotStd(key)

\* The values of a round trip: also one that reads as a component, "N=A".
RtValues == Values \cup {S(<<"N", "=", "A">>)}

\* Sequences of standard types, no type twice.
RtSeqs == {d \in DnSeqs(MaxRt, {k \in Keys : IsStd(k)}, RtValues) :
             \A i, j \in 1..Len(d) : i # j => d[i].key # d[j].key}

\* print_dn_parts, and parse_dn called on what it wrote (lines 489-491).
RtPrint ==
  /\ pc = "print"
  /\ out' = print_dn_parts(dn, charset)
  /\ input' = Flat(out')
  /\ heap' = Malloc(heap, "array", <<>>)
  /\ array' = Len(heap) + 1
  /\ cells' = [i \in 1..8 |-> UninitEntry]
  /\ arrayidx' = 0
  /\ arraysize' = 7
  /\ pc' = "loop"
  /\ UNCHANGED <<junk, str, ret, maxread, last, dn, charset, out2>>
  /\ UNCHANGED otherVars

RtReprint ==
  /\ pc = "returned"
  /\ ret # NULL
  /\ out2' = print_dn_parts(DnOf(cells, heap, 1), charset)
  /\ pc' = "reprinted"
  /\ UNCHANGED <<parseVars, dn, charset, out>>
  /\ UNCHANGED otherVars

InitRt == InitDn(RtSeqs)

NextRt == RtPrint \/ ParseDnComponent \/ ParseDnReturn \/ RtReprint

SpecRt == InitRt /\ [][NextRt]_vars

----------------------------------------------------------------------------
(* Properties of print_dn_parts (SpecPrint) *)

\* The display order of the standard types, as the documentation gives it.
CanonicalOrder == <<S(<<"C", "N">>), S(<<"O", "U">>), S(<<"O">>),
                    S(<<"S", "T", "R", "E", "E", "T">>), S(<<"L">>),
                    S(<<"S", "T">>), S(<<"C">>)>>

Known(key) == \E t \in 1..Len(CanonicalOrder) : key = CanonicalOrder[t]

Rank(key) == CHOOSE t \in 1..Len(CanonicalOrder) : key = CanonicalOrder[t]

\* The places of out where the value of attribute i is written.
ValPos(i) == {p \in 1..Len(out) : out[p].k = "val" /\ out[p].i = i}

\* The places of out where a value is written.
Vals == {p \in 1..Len(out) : out[p].k = "val"}

\* The attributes of type key, in parse order.
Occurrences(key) ==
  SelectSeq([i \in 1..Len(dn) |-> i], LAMBDA i : dn[i].key = key)

\* C1: the separator ", " is written only between two groups: what is
\* written never starts and never ends with it, and a sequence that holds
\* only a CN (CN="A") is written as exactly its value ("A").
C1_SeparatorOnlyBetweenGroups ==
  pc = "printed" =>
    /\ out # <<>> => out[1].k # "comma" /\ out[Len(out)].k # "comma"
    /\ \A p \in 1..(Len(out) - 1) :
         out[p].k = "comma" => out[p + 1].k \in {"val", "open"}
    /\ (Len(dn) = 1 /\ dn[1].key = S(<<"C", "N">>))
         => Flat(out) = print_utf8(dn[1].value, charset)

\* C5: every attribute of an unknown type is written exactly once, in parse
\* order, the entries separated by ", ", inside one pair of parentheses that
\* comes after all the groups of known types.
C5_UnknownOnceInParentheses ==
  pc = "printed" =>
    LET unknown == {i \in 1..Len(dn) : ~Known(dn[i].key)}
        opens == {p \in 1..Len(out) : out[p].k = "open"}
        closes == {p \in 1..Len(out) : out[p].k = "close"}
        uvals == {p \in Vals : out[p].i \in unknown}
    IN /\ \A i \in unknown : Cardinality(ValPos(i)) = 1
       /\ \A p, q \in uvals : p < q => out[p].i < out[q].i
       /\ \A p, q \in uvals :
            (p < q /\ ~\E x \in uvals : p < x /\ x < q)
              => (q = p + 2 /\ out[p + 1].k = "comma")
       /\ unknown = {} => opens = {} /\ closes = {}
       /\ unknown # {} =>
            /\ Cardinality(opens) = 1 /\ closes = {Len(out)}
            /\ \A o \in opens :
                 /\ \A p \in uvals : o < p
                 /\ \A p \in Vals \ uvals : p < o

\* C6: the values of known types are written in the order CN, OU, O, STREET,
\* L, ST, C whatever their order in the sequence, and each of them before
\* any value of an unknown type.
C6_KnownTypesInCanonicalOrder ==
  pc = "printed" =>
    /\ \A i \in 1..Len(dn) : Known(dn[i].key) => ValPos(i) # {}
    /\ \A p, q \in Vals :
         p < q =>
           LET a == dn[out[p].i].key
               b == dn[out[q].i].key
           IN /\ Known(a) /\ Known(b) => Rank(a) <= Rank(b)
              /\ ~(~Known(a) /\ Known(b))

C6_Witness ==
  /\ pc = "printed"
  /\ Len(dn) = 3
  /\ ~Known(dn[1].key)
  /\ dn[2].key = S(<<"C">>)
  /\ dn[3].key = S(<<"C", "N">>)

\* C7: the occurrences of a known type are written one after the other in
\* parse order, joined by " + ", each of them exactly once.
C7_SameTypeJoinedByPlus ==
  pc = "printed" =>
    \A t \in 1..Len(CanonicalOrder) :
      LET occ == Occurrences(CanonicalOrder[t])
      IN occ # <<>> =>
           /\ \A j \in 1..Len(occ) : Cardinality(ValPos(occ[j])) = 1
           /\ \E p \in ValPos(occ[1]) :
                \A j \in 2..Len(occ) :
                  /\ p + 2 * (j - 1) <= Len(out)
                  /\ out[p + 2 * (j - 1) - 1] = Plus
                  /\ out[p + 2 * (j - 1)].k = "val"
                  /\ out[p + 2 * (j - 1)].i = occ[j]

\* OU="A", CN, OU=U+00E9: the OU slot holds "A + " and U+00E9.
C7_Witness ==
  /\ pc = "printed"
  /\ charset = "utf-8"
  /\ Len(dn) = 3
  /\ dn[1] = [key |-> S(<<"O", "U">>), value |-> S(<<"A">>)]
  /\ dn[2].key = S(<<"C", "N">>)
  /\ dn[3] = [key |-> S(<<"O", "U">>), value |-> <<195, 169>>]
  /\ \E p \in 1..(Len(out) - 2) :
       Flat(SubSeq(out, p, p + 2)) = <<65, 32, 43, 32, 195, 169>>

----------------------------------------------------------------------------
(* Properties of parse_dn (Spec) *)

\* The memory parse_dn reads.
Mem == Memory(input, junk)

HexDigits == (48..57) \cup (65..70) \cup (97..102)

\* The number a hexadecimal digit stands for.
DigitValue(c) == IF c \in 48..57 THEN c - 48
                 ELSE IF c \in 65..70 THEN c - 65 + 10 ELSE c - 97 + 10

\* The length of the run of hexadecimal digits at s.
RECURSIVE HexRunLen(_, _)
HexRunLen(m, s) == IF Rd(m, s) \in HexDigits THEN 1 + HexRunLen(m, s + 1) ELSE 0

\* The last component parsed had a '#' value that lies in the input.
HexComponent == last.called /\ last.hex /\ last.vstart <= Len(input)

\* C2: parse_dn returns NULL when the '#' of a value is followed by no hex
\* digit or by an odd number of hex digits, whatever follows the run.
C2_BadHexRunFails ==
  HexComponent =>
    LET k == HexRunLen(Mem, last.vstart + 1)
    IN (k = 0 \/ k % 2 = 1) => ~last.ok /\ pc = "returned" /\ ret = NULL

\* C3: no character after the terminating NUL of the input is read.
C3_NoReadPastNul == maxread <= Len(input) + 1

\* C8: when parse_dn fails it returns NULL and every block allocated during
\* the call (keys, values, arrays) has been freed exactly once; no block is
\* ever freed twice.
C8_FailureFreesEverything ==
  /\ \A b \in 1..Len(heap) : heap[b].frees <= 1
  /\ (pc = "returned" /\ ret = NULL) =>
       /\ array = NULL
       /\ \A b \in 1..Len(heap) : heap[b].frees = 1

\* A failure after the array has been regrown, with values parsed.
C8_Witness ==
  /\ pc = "returned"
  /\ ret = NULL
  /\ Cardinality({b \in 1..Len(heap) : heap[b].kind = "array"}) = 2
  /\ Cardinality({b \in 1..Len(heap) : heap[b].kind = "value"}) >= MaxRep
  /\ last.hasKey

\* The characters a backslash makes literal, and those that end a value.
Literals == {44, 61, 43, 60, 62, 35, 59, 92, 34, 32}
ValueEnds == {44, 61, 43, 60, 62, 35, 59}

\* A quoted string read in one pass: res is "ok" (with the decoded value and
\* the place of the character that ends it), "escape" for a backslash
\* followed by something else than a literal or two hex digits, "quote" for
\* a bare double-quote.
RECURSIVE RefValue(_, _, _)
RefValue(m, s, acc) ==
  LET c == Rd(m, s)
      d == Rd(m, s + 1)
      e == Rd(m, s + 2)
  IN IF c = NUL \/ c \in ValueEnds
     THEN [res |-> "ok", val |-> acc, stop |-> s]
     ELSE IF c = 34 THEN [res |-> "quote", val |-> acc, stop |-> s]
     ELSE IF c # 92 THEN RefValue(m, s + 1, Append(acc, c))
     ELSE IF d \in Literals THEN RefValue(m, s + 2, Append(acc, d))
     ELSE IF d \in HexDigits /\ e \in HexDigits
     THEN RefValue(m, s + 3,
                   Append(acc, 16 * DigitValue(d) + DigitValue(e)))
     ELSE [res |-> "escape", val |-> acc, stop |-> s]

\* C9: in a value that is no '#' string, a backslash and a literal give the
\* literal, a backslash and two hex digits give the byte they encode, any
\* other backslash makes parse_dn fail; the decoded value has the number of
\* bytes the first pass counted, and parsing goes on at the character that
\* stopped that pass.
C9_EscapesDecoded ==
  (last.called /\ last.hasKey /\ ~last.hex) =>
    LET ref == RefValue(Mem, last.vstart, <<>>)
    IN /\ ref.res = "escape" => ~last.ok /\ pc = "returned" /\ ret = NULL
       /\ ref.res = "ok" =>
            /\ last.ok
            /\ last.value = ref.val
            /\ Len(last.value) = last.n
            /\ last.stop = ref.stop
            /\ last.s = last.stop

\* "N=\4A," : the value is the byte 0x4A and parsing went on after the ','.
C9_Witness ==
  /\ input = S(<<"N", "=", "\\", "4", "A", ",">>)
  /\ last.ok
  /\ last.value = <<74>>
  /\ str = 7
  /\ pc = "loop"

\* C10: a '#' value of 2k > 0 hex digits followed by the end of the string,
\* a space or a separator gives a value of k bytes, byte i being the number
\* the i-th pair of digits encodes.
C10_HexValueDecoded ==
  HexComponent =>
    LET h == last.vstart + 1
        k2 == HexRunLen(Mem, h)
        k == k2 \div 2
    IN (k2 > 0 /\ k2 % 2 = 0 /\ Rd(Mem, h + k2) \in {NUL, 32, 44, 59, 43}) =>
         /\ last.ok
         /\ Len(last.value) = k
         /\ \A i \in 1..k :
              last.value[i] = 16 * DigitValue(Mem[h + 2 * i - 2])
                                + DigitValue(Mem[h + 2 * i - 1])
         /\ ret # NULL =>
              /\ heap[cells[arrayidx].key].data = last.key
              /\ heap[cells[arrayidx].value].data = last.value

\* "N=#4AA4" gives the two bytes 0x4A, 0xA4.
C10_Witness ==
  /\ input = S(<<"N", "=", "#", "4", "A", "A", "4">>)
  /\ pc = "returned"
  /\ ret # NULL
  /\ DnOf(cells, heap, 1) = <<[key |-> S(<<"N">>), value |-> <<74, 164>>]>>

----------------------------------------------------------------------------
(* The round trip (SpecRt) *)

\* C4 as stated: for a sequence of pairwise distinct standard types, what
\* print_dn_parts writes is parsed by parse_dn, and printing the result
\* writes the same string again.
C4_RoundTrip ==
  /\ pc = "returned" => ret # NULL
  /\ pc = "reprinted" => Flat(out2) = Flat(out)

\* C4, amended: print_dn_parts writes the values without their types, so
\* parse_dn returns NULL on what was written whenever that holds a character
\* other than a space and no '='; the same string is written again when
\* what was written is empty.
C4_RoundTripAmended ==
  /\ (pc = "returned"
        /\ (\E p \in 1..Len(input) : input[p] # 32)
        /\ (\A p \in 1..Len(input) : input[p] # 61))
       => ret = NULL
  /\ (pc = "reprinted" /\ Flat(out) = <<>>) => Flat(out2) = <<>>

C4_Witness ==
  /\ pc = "returned"
  /\ ret = NULL
  /\ Len(dn) = 3
  /\ input = Flat(out)
  /\ \A p \in 1..Len(input) : input[p] # 61

----------------------------------------------------------------------------
(* The attribute type, the end of a value, the empty input *)

\* C11: parse_dn returns NULL whenever a component starts with '=' (an empty
\* attribute type).  A component whose type was stored starts with the first
\* character of that type.
C11_EmptyTypeFails ==
  (last.called /\ last.hasKey /\ last.key[1] = 61)
    => pc = "returned" /\ ret = NULL

\* Longest free-form text after "N=" of an input that probes the end of a
\* value.
MaxSepTail == 3

SepAlphabet == {Ascii["A"], Ascii[" "], Ascii[","], Ascii[";"], Ascii["+"],
                Ascii["<"], Ascii[">"], Ascii["="], Ascii["#"], Ascii["\\"]}

SepStrings(n) == UNION {[1..k -> SepAlphabet] : k \in 0..n}

\* parse_dn on "N=" and a text of value characters, delimiters and
\* backslashes.
InitSep ==
  /\ \E t \in SepStrings(MaxSepTail) : input = S(<<"N", "=">>) \o t
  /\ junk = <<>>
  /\ str = 1
  /\ heap = Malloc(<<>>, "array", <<>>)
  /\ array = 1
  /\ cells = [i \in 1..8 |-> UninitEntry]
  /\ arrayidx = 0
  /\ arraysize = 7
  /\ pc = "loop"
  /\ ret = UNINIT
  /\ maxread = 0
  /\ last = NoPart
  /\ dn = <<>>
  /\ charset = "utf-8"
  /\ out = <<>>
  /\ out2 = <<>>
  /\ OtherIdle

NextSep == ParseDnComponent \/ ParseDnReturn

SpecSep == InitSep /\ [][NextSep]_vars

\* C12: a value that is no '#' string ends at the first unescaped
\* , = + < > # or ; (or at the end of the string).  When that character is
\* '=', '<', '>' or '#' parse_dn returns NULL; when it is ',', ';' or '+' the
\* component is accepted and parsing goes on after it; at the end of the
\* string the component is accepted.
C12_ValueEndAndSeparator ==
  (last.called /\ last.hasKey /\ ~last.hex) =>
    LET ref == RefValue(Mem, last.vstart, <<>>)
        c == Rd(Mem, ref.stop)
    IN ref.res = "ok" =>
         /\ last.stop = ref.stop
         /\ c \in {61, 60, 62, 35} => pc = "returned" /\ ret = NULL
         /\ c \in {44, 59, 43} =>
              /\ ret # NULL
              /\ str = ref.stop + 1
              /\ heap[cells[arrayidx].value].data = ref.val
         /\ c = NUL =>
              /\ ret # NULL
              /\ str = ref.stop
              /\ heap[cells[arrayidx].value].data = ref.val

\* "N=;A=": the ';' is consumed and a second component is read.
C12_Witness ==
  /\ input = S(<<"N", "=", ";", "A", "=">>)
  /\ pc = "returned"
  /\ ret # NULL
  /\ Len(DnOf(cells, heap, 1)) = 2

\* C13: parse_dn on the empty string or on spaces only returns an array
\* whose first entry is the sentinel (no attribute), and allocates nothing
\* but the array.
C13_EmptyInputGivesEmptySequence ==
  (pc = "returned" /\ \A p \in 1..Len(input) : input[p] = 32) =>
    /\ ret # NULL
    /\ ret = array
    /\ heap[ret].frees = 0
    /\ cells[1] = NullEntry
    /\ DnOf(cells, heap, 1) = <<>>
    /\ Len(heap) = 1

C13_Witness ==
  /\ pc = "returned"
  /\ input = <<32, 32>>
  /\ ret = array
  /\ cells[1] = NullEntry

----------------------------------------------------------------------------
(* parse_and_print_user_id *)

\* IsAlnum without the upper-case letters.
IsAlnum_no_upper(c) == \/ (c >= 48 /\ c <= 57)
                       \/ (c >= 97 /\ c <= 122)

\* isalnum() in the C locale
IsAlnum(c) == \/ (c >= 48 /\ c <= 57)
              \/ (c >= 65 /\ c <= 90)
              \/ (c >= 97 /\ c <= 122)

\* The messages, as they are in the source (_() gives the text itself when
\* no translation is in use).
\* "[Can't display this user ID (unknown encoding)]"
MsgUnknownEncoding ==
  <<91, 67, 97, 110, 39, 116, 32, 100, 105, 115, 112, 108, 97, 121, 32,
    116, 104, 105, 115, 32, 117, 115, 101, 114, 32, 73, 68, 32, 40, 117,
    110, 107, 110, 111, 119, 110, 32, 101, 110, 99, 111, 100, 105, 110,
    103, 41, 93>>

\* "[Can't display this user ID (invalid encoding)]"
MsgInvalidEncoding ==
  <<91, 67, 97, 110, 39, 116, 32, 100, 105, 115, 112, 108, 97, 121, 32,
    116, 104, 105, 115, 32, 117, 115, 101, 114, 32, 73, 68, 32, 40, 105,
    110, 118, 97, 108, 105, 100, 32, 101, 110, 99, 111, 100, 105, 110, 103,
    41, 93>>

\* "[Can't display this user ID (invalid DN)]"
MsgInvalidDn ==
  <<91, 67, 97, 110, 39, 116, 32, 100, 105, 115, 112, 108, 97, 121, 32,
    116, 104, 105, 115, 32, 117, 115, 101, 114, 32, 73, 68, 32, 40, 105,
    110, 118, 97, 108, 105, 100, 32, 68, 78, 41, 93>>

\* strchr(userid + from - 1, c): the index of the first c at or after from,
\* NULL when the string holds none.
RECURSIVE Strchr(_, _, _)
Strchr(u, from, c) ==
  IF from > Len(u) THEN NULL
  ELSE IF u[from] = c THEN from ELSE Strchr(u, from + 1, c)

\* for (int i = 0; dn[i].key; i++) { FREE(&dn[i].key); FREE(&dn[i].value); }
RECURSIVE FreeDn(_, _, _)
FreeDn(h, cs, i) ==
  IF cs[i].key = NULL THEN h ELSE FreeDn(FreeEntry(h, cs[i]), cs, i + 1)

\* Lines 548-562: the user IDs that are no DN are written; for the others
\* parse_dn is called (lines 489-491).
UidStart ==
  /\ pc = "uid"
  /\ LET c == Rd(input, 1)
         gt == Strchr(input, 2, Ascii[">"])
     IN IF c = Ascii["<"]
        THEN /\ out' = IF gt # NULL
                       THEN <<Write("text", 0,
                                    print_utf8(SubSeq(input, 2, gt - 1),
                                               charset))>>
                       ELSE <<>>
             /\ pc' = "done"
             /\ UNCHANGED <<heap, array, cells>>
        ELSE IF c = Ascii["("]
        THEN /\ out' = <<Write("msg", 0, MsgUnknownEncoding)>>
             /\ pc' = "done"
             /\ UNCHANGED <<heap, array, cells>>
        ELSE IF ~IsAlnum(c)
        THEN /\ out' = <<Write("msg", 0, MsgInvalidEncoding)>>
             /\ pc' = "done"
             /\ UNCHANGED <<heap, array, cells>>
        ELSE /\ out' = out
             /\ pc' = "loop"
             /\ heap' = Malloc(heap, "array", <<>>)
             /\ array' = Len(heap) + 1
             /\ cells' = [i \in 1..8 |-> UninitEntry]
  /\ UNCHANGED <<input, junk, str, arrayidx, arraysize, ret, maxread, last,
                 dn, charset, out2>>
  /\ UNCHANGED otherVars

\* Lines 563-575: parse_dn has returned.
UidFinish ==
  /\ pc = "returned"
  /\ IF ret = NULL
     THEN /\ out' = Append(out, Write("msg", 0, MsgInvalidDn))
          /\ UNCHANGED <<heap, array>>
     ELSE /\ out' = out \o print_dn_parts(DnOf(cells, heap, 1), charset)
          /\ heap' = FreePtr(FreeDn(heap, cells, 1), ret)
          /\ array' = NULL
  /\ pc' = "done"
  /\ UNCHANGED <<input, junk, str, cells, arrayidx, arraysize, ret, maxread,
                 last, dn, charset, out2>>
  /\ UNCHANGED otherVars

\* Longest user ID handed to parse_and_print_user_id.
MaxUid == 4

UidAlphabet == {Ascii["<"], Ascii[">"], Ascii["("], Ascii["N"], Ascii["="],
                Ascii["A"], Ascii[","]}

UidStrings(n) == UNION {[1..k -> UidAlphabet] : k \in 0..n}

InitUid ==
  /\ input \in UidStrings(MaxUid)
  /\ junk = <<>>
  /\ str = 1
  /\ heap = <<>>
  /\ array = NULL
  /\ cells = <<>>
  /\ arrayidx = 0
  /\ arraysize = 7
  /\ pc = "uid"
  /\ ret = UNINIT
  /\ maxread = 0
  /\ last = NoPart
  /\ dn = <<>>
  /\ charset = "utf-8"
  /\ out = <<>>
  /\ out2 = <<>>
  /\ OtherIdle

NextUid == UidStart \/ ParseDnComponent \/ ParseDnReturn \/ UidFinish

SpecUid == InitUid /\ [][NextUid]_vars

\* The letters and digits of ASCII.
AlnumChars == (48..57) \cup (65..90) \cup (97..122)

\* The text of u after its first character and before the first '>' that
\* follows; no text when there is no such '>'.
RECURSIVE UpToGt(_, _)
UpToGt(u, i) ==
  IF i > Len(u) THEN [found |-> FALSE, text |-> <<>>]
  ELSE IF u[i] = 62 THEN [found |-> TRUE, text |-> <<>>]
  ELSE LET r == UpToGt(u, i + 1)
       IN [found |-> r.found,
           text |-> IF r.found THEN <<u[i]>> \o r.text ELSE <<>>]

\* C14: what parse_and_print_user_id has written when it returns is, for a
\* user ID that starts with '<', the text between the '<' and the first '>'
\* (nothing without a '>'); for one that starts with '(', the
\* unknown-encoding message; for one that starts with no letter or digit
\* (or is empty), the invalid-encoding message; for any other, the
\* invalid-DN message alone when parse_dn returned NULL and what
\* print_dn_parts writes for the parsed attributes otherwise.
C14_ExactlyOneOutput ==
  pc = "done" =>
    IF input # <<>> /\ input[1] = 60
    THEN Flat(out) = UpToGt(input, 2).text
    ELSE IF input # <<>> /\ input[1] = 40
    THEN out = <<Write("msg", 0, MsgUnknownEncoding)>>
    ELSE IF input = <<>> \/ input[1] \notin AlnumChars
    THEN out = <<Write("msg", 0, MsgInvalidEncoding)>>
    ELSE IF ret = NULL
    THEN out = <<Write("msg", 0, MsgInvalidDn)>>
    ELSE /\ last.called
         /\ \A p \in 1..Len(out) : out[p].k # "msg"
         /\ out = print_dn_parts(DnOf(cells, heap, 1), charset)

\* "N=A,": parse_dn succeeds and "(A)" is written; nothing else is.
C14_Witness ==
  /\ pc = "done"
  /\ input = S(<<"N", "=", "A", ",">>)
  /\ ret # NULL
  /\ Flat(out) = S(<<"(", "A", ")">>)

----------------------------------------------------------------------------
(* parse_dn on many components: the growth of the array *)

\* Largest number of components of an input: the array is filled (7) and
\* regrown three times (12, 17, 22).
MaxGrow == 18

\* The value of component k: "A", "4" and "N" in turn.
GrowVal(k) == <<Ascii["A"], Ascii["4"], Ascii["N"]>>[(k % 3) + 1]

\* "N=v1,N=v2,...": components 1..n, with or without a ',' after the last.
RECURSIVE GrowInput(_, _)
GrowInput(n, comma) ==
  IF n = 0 THEN <<>>
  ELSE GrowInput(n - 1, TRUE) \o <<Ascii["N"], Ascii["="], GrowVal(n)>>
         \o (IF comma THEN <<Ascii[","]>> ELSE <<>>)

InitGrow ==
  /\ \E n \in 0..MaxGrow : \E comma \in BOOLEAN : input = GrowInput(n, comma)
  /\ junk = <<>>
  /\ str = 1
  /\ heap = Malloc(<<>>, "array", <<>>)
  /\ array = 1
  /\ cells = [i \in 1..8 |-> UninitEntry]
  /\ arrayidx = 0
  /\ arraysize = 7
  /\ pc = "loop"
  /\ ret = UNINIT
  /\ maxread = 0
  /\ last = NoPart
  /\ dn = <<>>
  /\ charset = "utf-8"
  /\ out = <<>>
  /\ out2 = <<>>
  /\ OtherIdle

NextGrow == ParseDnComponent \/ ParseDnReturn

SpecGrow == InitGrow /\ [][NextGrow]_vars

\* The number of components of the input: one for each '='.
NumComponents == Cardinality({p \in 1..Len(input) : input[p] = 61})

\* The arrays allocated so far.
Arrays == {b \in 1..Len(heap) : heap[b].kind = "array"}

\* C15: on an input of n well-formed components, whatever n is, the array
\* in use has arraysize + 1 entries, the index of the next entry written
\* (arrayidx) is never above arraysize, the capacity is 7 plus 5 for each
\* regrowth, and parse_dn returns the n attributes in input order followed
\* by the sentinel; every array but the one in use has been freed once.
C15_AnyNumberOfComponents ==
  /\ Len(cells) = arraysize + 1
  /\ arrayidx <= arraysize
  /\ arraysize = 7 + 5 * (Cardinality(Arrays) - 1)
  /\ \A b \in Arrays : heap[b].frees = IF b = array THEN 0 ELSE 1
  /\ \A i \in 1..arrayidx :
       /\ heap[cells[i].key].data = <<78>>
       /\ heap[cells[i].value].data = <<GrowVal(i)>>
  /\ pc = "returned" =>
       /\ ret = array
       /\ ret # NULL
       /\ arrayidx = NumComponents
       /\ cells[arrayidx + 1] = NullEntry
       /\ Len(DnOf(cells, heap, 1)) = NumComponents

\* 18 components: the array was regrown three times.
C15_Witness ==
  /\ pc = "returned"
  /\ ret # NULL
  /\ arraysize = 22
  /\ Cardinality(Arrays) = 4
  /\ Len(DnOf(cells, heap, 1)) = 18

----------------------------------------------------------------------------
(* alias/gui.c: alias_array_alias_add, alias_array_alias_delete *)

\* Largest number of entries of the AliasViewArray.
MaxAva == 4
\* Number of Alias objects.
MaxAlias == 2

\* The pointers an argument may be: NULL or an object.
AliasPtrs == 0..MaxAlias
AvaPtrs == {NULL, 1}

\* ARRAY_SIZE(head): the number of elements.
ARRAY_SIZE(a) == Len(a)

\* ARRAY_ADD(head, elem): elem becomes the last element.
ARRAY_ADD(a, e) == Append(a, e)

\* ARRAY_REMOVE(head, elem), elem being the element at index i: the later
\* elements move down by one.
ARRAY_REMOVE(a, i) ==
  [j \in 1..(Len(a) - 1) |-> IF j < i THEN a[j] ELSE a[j + 1]]

\* struct AliasView av = { ... }
NewAliasView(a, alias) ==
  [num |-> 0, orig_seq |-> ARRAY_SIZE(a), is_tagged |-> FALSE,
   is_deleted |-> FALSE, is_visible |-> TRUE, alias |-> alias]

\* FindAlias that goes on to the last entry with that alias.
RECURSIVE FindAlias_last(_, _, _)
FindAlias_last(a, alias, i) ==
  IF i > Len(a) THEN 0
  ELSE LET r == FindAlias_last(a, alias, i + 1)
       IN IF r # 0 THEN r ELSE IF a[i].alias = alias THEN i ELSE 0

\* ARRAY_FOREACH(avp, ava) { if (avp->alias != alias) continue; ... break; }
\* the index of the entry the loop stops at, 0 when it runs to the end.
RECURSIVE FindAlias(_, _, _)
FindAlias(a, alias, i) ==
  IF i > Len(a) THEN 0
  ELSE IF a[i].alias # alias THEN FindAlias(a, alias, i + 1) ELSE i

alias_array_alias_add ==
  /\ Len(ava) < MaxAva
  /\ \E p \in AvaPtrs : \E alias \in AliasPtrs :
       /\ acall' = [op |-> "add", ava |-> p, alias |-> alias, before |-> ava]
       /\ IF p = NULL \/ alias = NULL
          THEN /\ aret' = -1
               /\ ava' = ava
          ELSE /\ ava' = ARRAY_ADD(ava, NewAliasView(ava, alias))
               /\ aret' = ARRAY_SIZE(ava')
  /\ UNCHANGED <<dnVars, cmpVars, dlgVars, chainVars>>

alias_array_alias_delete ==
  /\ \E p \in AvaPtrs : \E alias \in AliasPtrs :
       /\ acall' = [op |-> "delete", ava |-> p, alias |-> alias,
                    before |-> ava]
       /\ IF p = NULL \/ alias = NULL
          THEN /\ aret' = -1
               /\ ava' = ava
          ELSE LET i == FindAlias(ava, alias, 1)
               IN /\ ava' = IF i # 0 THEN ARRAY_REMOVE(ava, i) ELSE ava
                  /\ aret' = ARRAY_SIZE(ava')
  /\ UNCHANGED <<dnVars, cmpVars, dlgVars, chainVars>>

InitAlias ==
  /\ DnIdle
  /\ AliasIdle
  /\ CmpIdle
  /\ DlgIdle
  /\ ChainIdle

NextAlias == alias_array_alias_add \/ alias_array_alias_delete

SpecAlias == InitAlias /\ [][NextAlias]_vars

\* The sequence q without its element at index i.
Without(q, i) == SubSeq(q, 1, i - 1) \o SubSeq(q, i + 1, Len(q))

\* The places of q that hold the Alias x.
Holding(q, x) == {i \in 1..Len(q) : q[i].alias = x}

\* C16: alias_array_alias_add with a NULL argument returns -1 and changes
\* nothing; otherwise it appends one AliasView (visible, not tagged, not
\* deleted, orig_seq the size before the call, the Alias given) and returns
\* the new size.  alias_array_alias_delete with a NULL argument returns -1
\* and changes nothing; otherwise it removes the first entry that holds the
\* Alias and no other, nothing when no entry holds it, and returns the
\* resulting size.
C16_AddAppendsDeleteRemovesFirst ==
  /\ acall.op = "add" =>
       IF acall.ava = 0 \/ acall.alias = 0
       THEN aret = -1 /\ ava = acall.before
       ELSE /\ Len(ava) = Len(acall.before) + 1
            /\ SubSeq(ava, 1, Len(acall.before)) = acall.before
            /\ ava[Len(ava)].is_visible
            /\ ~ava[Len(ava)].is_tagged
            /\ ~ava[Len(ava)].is_deleted
            /\ ava[Len(ava)].orig_seq = Len(acall.before)
            /\ ava[Len(ava)].alias = acall.alias
            /\ aret = Len(ava)
  /\ acall.op = "delete" =>
       IF acall.ava = 0 \/ acall.alias = 0
       THEN aret = -1 /\ ava = acall.before
       ELSE LET h == Holding(acall.before, acall.alias)
            IN /\ aret = Len(ava)
               /\ h = {} => ava = acall.before
               /\ h # {} =>
                    \E i \in h : /\ \A j \in h : i <= j
                                 /\ ava = Without(acall.before, i)

\* An Alias held by the first and the third of three entries is deleted: the
\* first entry goes, the third stays.
C16_Witness ==
  /\ acall.op = "delete"
  /\ acall.ava # 0
  /\ Len(acall.before) = 3
  /\ Holding(acall.before, acall.alias) = {1, 3}
  /\ Len(ava) = 2
  /\ ava[2] = acall.before[3]
  /\ aret = 2

\* C21: after any sequence of alias_array_alias_add and
\* alias_array_alias_delete calls, the entries of the array have pairwise
\* distinct orig_seq values.
C21_OrigSeqDistinct ==
  \A i, j \in 1..Len(ava) : i # j => ava[i].orig_seq # ava[j].orig_seq

----------------------------------------------------------------------------
(* The comparison functions of the key table *)

\* A key is a CryptKeyInfo with its kobj: uid, the string crypt_fpr_or_lkeyid
\* gives, flags (the set of the KEYFLAG_ bits that are set), validity, and
\* subkeys, the list kobj->subkeys (empty for NULL; the functions look at
\* its first element only).

\* The values of the KEYFLAG_ bits (ncrypt/lib.h).
FlagBit == [CANENCRYPT |-> 2, ISX509 |-> 4, EXPIRED |-> 256, REVOKED |-> 512,
            DISABLED |-> 1024, CRITICAL |-> 4096]

KEYFLAG_CANTUSE == {"EXPIRED", "REVOKED", "DISABLED"}

KEYFLAG_RESTRICTIONS == KEYFLAG_CANTUSE \cup {"CRITICAL"}

RECURSIVE SumBits(_)
SumBits(fs) ==
  IF fs = {} THEN 0
  ELSE LET f == CHOOSE x \in fs : TRUE IN FlagBit[f] + SumBits(fs \ {f})

\* flags & mask, as a number
FlagsAnd(flags, mask) == SumBits(flags \cap mask)

\* gpgme_validity_t
GPGME_VALIDITY_UNKNOWN == 0
GPGME_VALIDITY_UNDEFINED == 1
GPGME_VALIDITY_NEVER == 2
GPGME_VALIDITY_MARGINAL == 3
GPGME_VALIDITY_FULL == 4
GPGME_VALIDITY_ULTIMATE == 5

\* tolower() in the C locale
ToLower(c) == IF c >= 65 /\ c <= 90 THEN c + 32 ELSE c

\* mutt_istr_cmp(a, b): the strings compared without regard to case; the
\* difference of the first two characters that differ.
RECURSIVE mutt_istr_cmp(_, _)
mutt_istr_cmp(a, b) ==
  LET x == IF a = <<>> THEN NUL ELSE ToLower(Head(a))
      y == IF b = <<>> THEN NUL ELSE ToLower(Head(b))
  IN IF x # y \/ x = NUL THEN x - y ELSE mutt_istr_cmp(Tail(a), Tail(b))

\* The int a C comparison gives.
Bool(b) == IF b THEN 1 ELSE 0

crypt_compare_key_address(s, t) ==
  LET r == mutt_istr_cmp(s.uid, t.uid)
  IN IF r # 0 THEN Bool(r > 0) ELSE Bool(mutt_istr_cmp(s.fpr, t.fpr) > 0)

crypt_compare_keyid(s, t) ==
  LET r == mutt_istr_cmp(s.fpr, t.fpr)
  IN IF r # 0 THEN Bool(r > 0) ELSE Bool(mutt_istr_cmp(s.uid, t.uid) > 0)

\* ts (tt) after lines 217-220 and 279-282: the timestamp of the first
\* subkey when there is one and it is positive, else what it was.
StampOr(key, old) ==
  IF key.subkeys # <<>> /\ key.subkeys[1].timestamp > 0
  THEN key.subkeys[1].timestamp ELSE old

crypt_compare_key_date(s, t) ==
  LET ts == StampOr(s, 0)
      tt == StampOr(t, 0)
  IN IF ts > tt THEN 1
     ELSE IF ts < tt THEN 0
     ELSE Bool(mutt_istr_cmp(s.uid, t.uid) > 0)

\* ts (tt) after lines 272-275: the length of the first subkey when there is
\* one, else what it was.
LengthOr(key, old) ==
  IF key.subkeys # <<>> THEN key.subkeys[1].length ELSE old

\* (tt - ts) is an unsigned long stored in an int: for validities, which
\* are 0..5, that is the difference.
crypt_compare_key_trust(s, t) ==
  LET r1 == FlagsAnd(s.flags, KEYFLAG_RESTRICTIONS)
              - FlagsAnd(t.flags, KEYFLAG_RESTRICTIONS)
      r2 == t.validity - s.validity
      ts1 == LengthOr(s, s.validity)
      tt1 == LengthOr(t, t.validity)
      ts2 == StampOr(s, ts1)
      tt2 == StampOr(t, tt1)
      r3 == mutt_istr_cmp(s.uid, t.uid)
  IN IF r1 # 0 THEN Bool(r1 > 0)
     ELSE IF r2 # 0 THEN Bool(r2 < 0)
     ELSE IF ts1 # tt1 THEN Bool(ts1 > tt1)
     ELSE IF ts2 > tt2 THEN 1
     ELSE IF ts2 < tt2 THEN 0
     ELSE IF r3 # 0 THEN Bool(r3 > 0)
     ELSE Bool(mutt_istr_cmp(s.fpr, t.fpr) > 0)

\* !x
LogNot(x) == IF x = 0 THEN 1 ELSE 0

\* The four functions handed to qsort; reverse is c_pgp_sort_keys &
\* SORT_REVERSE.
crypt_compare_address_qsort(a, b, reverse) ==
  IF reverse THEN LogNot(crypt_compare_key_address(a, b))
  ELSE crypt_compare_key_address(a, b)

crypt_crypt_compare_keyid_qsort(a, b, reverse) ==
  IF reverse THEN LogNot(crypt_compare_keyid(a, b))
  ELSE crypt_compare_keyid(a, b)

crypt_compare_date_qsort(a, b, reverse) ==
  IF reverse THEN LogNot(crypt_compare_key_date(a, b))
  ELSE crypt_compare_key_date(a, b)

crypt_compare_trust_qsort(a, b, reverse) ==
  IF reverse THEN LogNot(crypt_compare_key_trust(a, b))
  ELSE crypt_compare_key_trust(a, b)

\* Latest creation time of a subkey.
MaxTimestamp == 1

\* "a", "A" and "B"
Uids == {<<97>>, <<65>>, <<66>>}
\* "1" and "2"
Fprs == {<<49>>, <<50>>}

KeyLengths == {1, 2}

SubkeyLists ==
  {<<>>} \cup {<<[timestamp |-> ts, length |-> len]>> :
                 ts \in 0..MaxTimestamp, len \in KeyLengths}

CmpKeys == [uid : Uids, fpr : Fprs, flags : {{}, {"EXPIRED"}},
            validity : {GPGME_VALIDITY_UNKNOWN, GPGME_VALIDITY_FULL},
            subkeys : SubkeyLists]

CompareResult(fn, reverse, r, q) ==
  [fn |-> fn, reverse |-> reverse, r |-> r, q |-> q]

CompareAddress ==
  /\ cmp.fn = "none"
  /\ \E reverse \in BOOLEAN :
       cmp' = CompareResult("address", reverse,
                            crypt_compare_key_address(ka, kb),
                            crypt_compare_address_qsort(ka, kb, reverse))
  /\ UNCHANGED <<ka, kb, dnVars, aliasVars, dlgVars, chainVars>>

CompareKeyid ==
  /\ cmp.fn = "none"
  /\ \E reverse \in BOOLEAN :
       cmp' = CompareResult("keyid", reverse,
                            crypt_compare_keyid(ka, kb),
                            crypt_crypt_compare_keyid_qsort(ka, kb, reverse))
  /\ UNCHANGED <<ka, kb, dnVars, aliasVars, dlgVars, chainVars>>

CompareDate ==
  /\ cmp.fn = "none"
  /\ \E reverse \in BOOLEAN :
       cmp' = CompareResult("date", reverse,
                            crypt_compare_key_date(ka, kb),
                            crypt_compare_date_qsort(ka, kb, reverse))
  /\ UNCHANGED <<ka, kb, dnVars, aliasVars, dlgVars, chainVars>>

CompareTrust ==
  /\ cmp.fn = "none"
  /\ \E reverse \in BOOLEAN :
       cmp' = CompareResult("trust", reverse,
                            crypt_compare_key_trust(ka, kb),
                            crypt_compare_trust_qsort(ka, kb, reverse))
  /\ UNCHANGED <<ka, kb, dnVars, aliasVars, dlgVars, chainVars>>

InitCmp ==
  /\ ka \in CmpKeys
  /\ kb \in CmpKeys
  /\ cmp = [fn |-> "none"]
  /\ DnIdle
  /\ AliasIdle
  /\ DlgIdle
  /\ ChainIdle

NextCmp == CompareAddress \/ CompareKeyid \/ CompareDate \/ CompareTrust

SpecCmp == InitCmp /\ [][NextCmp]_vars

\* The comparison function fn applied to the keys a and b.
Compare(fn, a, b) ==
  CASE fn = "address" -> crypt_compare_key_address(a, b)
    [] fn = "keyid" -> crypt_compare_keyid(a, b)
    [] fn = "date" -> crypt_compare_key_date(a, b)
    [] fn = "trust" -> crypt_compare_key_trust(a, b)

\* C17: each of the four comparison functions returns -1, 0 or 1, 0 for a
\* key compared with itself, and compare(a, b) = -compare(b, a) for all
\* keys a and b.
C17_ThreeWayAntisymmetric ==
  cmp.fn # "none" =>
    /\ cmp.r \in {-1, 0, 1}
    /\ ka = kb => cmp.r = 0
    /\ cmp.r = -Compare(cmp.fn, kb, ka)

\* The sign of an int.
Sign(x) == IF x > 0 THEN 1 ELSE IF x < 0 THEN -1 ELSE 0

\* C22: with SORT_REVERSE set in pgp_sort_keys, each of the four functions
\* handed to qsort orders keys opposite to its unreversed form: the result
\* for (a, b) has the sign of the unreversed result for (b, a), and two
\* identical keys compare as 0.
C22_ReverseOrdersOpposite ==
  (cmp.fn # "none" /\ cmp.reverse) =>
    /\ Sign(cmp.q) = Sign(Compare(cmp.fn, kb, ka))
    /\ ka = kb => cmp.q = 0

----------------------------------------------------------------------------
(* dlg_select_gpgme_key *)

\* Largest number of keys handed to the dialog.
MaxKeyTable == 2

\* crypt_key_is_valid that takes every key.
crypt_key_is_valid_any(key) == TRUE

crypt_key_is_valid(key) == FlagsAnd(key.flags, KEYFLAG_CANTUSE) = 0

\* crypt_id_is_valid() and crypt_id_is_strong() of crypt_gpgme.c
crypt_id_is_valid(key) == FlagsAnd(key.flags, KEYFLAG_CANTUSE) = 0

crypt_id_is_strong(key) ==
  \/ FlagsAnd(key.flags, {"ISX509"}) # 0
  \/ key.validity \in {GPGME_VALIDITY_FULL, GPGME_VALIDITY_ULTIMATE}

\* The answers of mutt_yesorno(): MUTT_ABORT, MUTT_NO, MUTT_YES
QuadOptions == {"MUTT_ABORT", "MUTT_NO", "MUTT_YES"}

\* Confirmed that takes everything but a no.
Confirmed_unless_no(answer) == answer # "MUTT_NO"

\* mutt_yesorno(buf2, MUTT_NO) != MUTT_YES is false
Confirmed(answer) == answer = "MUTT_YES"

\* Lines 1353-1383: the question asked about a key.
WarnS(key) ==
  IF FlagsAnd(key.flags, KEYFLAG_CANTUSE) # 0 THEN "expired/disabled/revoked"
  ELSE IF key.validity = GPGME_VALIDITY_NEVER THEN "not valid"
  ELSE IF key.validity = GPGME_VALIDITY_MARGINAL THEN "only marginally valid"
  ELSE IF key.validity \in {GPGME_VALIDITY_FULL, GPGME_VALIDITY_ULTIMATE}
  THEN "??"
  ELSE "undefined validity"

\* The orders qsort may leave a table in: the functions it is given do not
\* order the keys (they never return a negative number), so every order of
\* the entries is a possible one.
Orders(t) ==
  {[i \in 1..Len(t) |-> t[f[i]]] :
     f \in {g \in [1..Len(t) -> 1..Len(t)] :
              \A i, j \in 1..Len(t) : i # j => g[i] # g[j]}}

\* A pointer to a key is the empty sequence (NULL) or holds the key.
NullKey == <<>>
KeyPtr(key) == <<key>>

\* What an operation did: the operation, the entry the cursor was on, the
\* error reported, the question asked, its answer, the message shown.
DlgOp(op, key, error, asked, answer, msg) ==
  [op |-> op, key |-> key, error |-> error, asked |-> asked,
   answer |-> answer, msg |-> msg]

\* Lines 1229-1322: the key table is built and sorted, the menu is made.
DlgBuild ==
  /\ dstate = "called"
  /\ LET table == SelectSeq(keys_in, LAMBDA x :
                    ~(~c_pgp_show_unusable
                        /\ FlagsAnd(x.flags, KEYFLAG_CANTUSE) # 0))
         unusable == Len(table) < Len(keys_in)
     IN IF table = <<>> /\ unusable
        THEN /\ dlgop' = DlgOp("build", NullKey, "all expired/revoked",
                               "none", "none", NullKey)
             /\ dstate' = "returned"
             /\ UNCHANGED <<key_table, current>>
        ELSE /\ key_table' \in Orders(table)
             /\ current' = 0
             /\ dlgop' = DlgOp("build", NullKey, "none", "none", "none",
                               NullKey)
             /\ dstate' = "open"
  /\ forced_valid' = 0
  /\ k_ret' = NullKey
  /\ done' = FALSE
  /\ UNCHANGED <<OptPgpCheckTrust, keys_in, c_pgp_show_unusable, gpgme_old>>
  /\ UNCHANGED <<dnVars, aliasVars, cmpVars, chainVars>>

\* mutt_menu_loop(menu) returns an operation; the cursor is on any entry.
MenuLoop(c) ==
  /\ dstate = "open"
  /\ ~done
  /\ c \in 0..(Len(key_table) - 1)
  /\ current' = c
  /\ UNCHANGED <<key_table, OptPgpCheckTrust, keys_in, c_pgp_show_unusable,
                 gpgme_old>>
  /\ UNCHANGED <<dnVars, aliasVars, cmpVars, chainVars>>

\* case OP_VERIFY_KEY
DlgVerifyKey ==
  \E c \in 0..(MaxKeyTable - 1) :
    /\ MenuLoop(c)
    /\ forced_valid' = 0
    /\ dlgop' = DlgOp("OP_VERIFY_KEY", KeyPtr(key_table[c + 1]), "none",
                      "none", "none", NullKey)
    /\ UNCHANGED <<done, k_ret, dstate>>

\* case OP_VIEW_ID
DlgViewId ==
  \E c \in 0..(MaxKeyTable - 1) :
    /\ MenuLoop(c)
    /\ forced_valid' = 0
    /\ dlgop' = DlgOp("OP_VIEW_ID", KeyPtr(key_table[c + 1]), "none",
                      "none", "none", KeyPtr(key_table[c + 1]))
    /\ UNCHANGED <<done, k_ret, dstate>>

\* An operation the switch has no case for.
DlgOtherOp ==
  \E c \in 0..(MaxKeyTable - 1) :
    /\ MenuLoop(c)
    /\ forced_valid' = 0
    /\ dlgop' = DlgOp("other", KeyPtr(key_table[c + 1]), "none", "none",
                      "none", NullKey)
    /\ UNCHANGED <<done, k_ret, dstate>>

\* case OP_GENERIC_SELECT_ENTRY, and lines 1418-1423 when it ends the loop
DlgSelectEntry ==
  \E c \in 0..(MaxKeyTable - 1) : \E answer \in QuadOptions :
    /\ MenuLoop(c)
    /\ LET key == key_table[c + 1] IN
         IF OptPgpCheckTrust /\ ~crypt_key_is_valid(key)
         THEN /\ dlgop' = DlgOp("OP_GENERIC_SELECT_ENTRY", KeyPtr(key),
                                "can't be used", "none", "none", NullKey)
              /\ forced_valid' = 0
              /\ UNCHANGED <<done, k_ret, dstate>>
         ELSE IF OptPgpCheckTrust
                   /\ (~crypt_id_is_valid(key) \/ ~crypt_id_is_strong(key))
         THEN /\ dlgop' = DlgOp("OP_GENERIC_SELECT_ENTRY", KeyPtr(key),
                                "none", WarnS(key), answer, NullKey)
              /\ IF ~Confirmed(answer)
                 THEN /\ forced_valid' = 0
                      /\ UNCHANGED <<done, k_ret, dstate>>
                 ELSE /\ forced_valid' = IF gpgme_old THEN 1 ELSE 0
                      /\ k_ret' = KeyPtr(key)
                      /\ done' = TRUE
                      /\ dstate' = "returned"
         ELSE /\ answer = "MUTT_NO"
              /\ dlgop' = DlgOp("OP_GENERIC_SELECT_ENTRY", KeyPtr(key),
                                "none", "none", "none", NullKey)
              /\ forced_valid' = 0
              /\ k_ret' = KeyPtr(key)
              /\ done' = TRUE
              /\ dstate' = "returned"

\* case OP_EXIT, and lines 1418-1423
DlgExit ==
  \E c \in 0..(MaxKeyTable - 1) :
    /\ MenuLoop(c)
    /\ forced_valid' = 0
    /\ dlgop' = DlgOp("OP_EXIT", KeyPtr(key_table[c + 1]), "none", "none",
                      "none", NullKey)
    /\ k_ret' = NullKey
    /\ done' = TRUE
    /\ dstate' = "returned"

DlgKeys == [flags : {{}, {"EXPIRED"}, {"ISX509"}},
            validity : {GPGME_VALIDITY_MARGINAL, GPGME_VALIDITY_FULL}]

\* The argument keys is a list of at least one key.
InitDlg ==
  /\ keys_in \in UNION {[1..n -> DlgKeys] : n \in 1..MaxKeyTable}
  /\ c_pgp_show_unusable \in BOOLEAN
  /\ OptPgpCheckTrust \in BOOLEAN
  /\ gpgme_old \in BOOLEAN
  /\ key_table = <<>>
  /\ current = 0
  /\ done = FALSE
  /\ k_ret = <<>>
  /\ forced_valid = 0
  /\ dstate = "called"
  /\ dlgop = [op |-> "none"]
  /\ DnIdle
  /\ AliasIdle
  /\ CmpIdle
  /\ ChainIdle

NextDlg == \/ DlgBuild
           \/ DlgVerifyKey
           \/ DlgViewId
           \/ DlgOtherOp
           \/ DlgSelectEntry
           \/ DlgExit

SpecDlg == InitDlg /\ [][NextDlg]_vars

\* The bits that make a key unusable.
CantUse(key) == key.flags \cap {"EXPIRED", "REVOKED", "DISABLED"} # {}

\* C18: with OptPgpCheckTrust set the dialog never returns a key that has a
\* KEYFLAG_CANTUSE bit: OP_GENERIC_SELECT_ENTRY on such an entry reports
\* that the key can't be used, asks nothing, chooses no key and leaves the
\* dialog open.
C18_UnusableKeyNeverReturned ==
  OptPgpCheckTrust =>
    /\ (dstate = "returned" /\ k_ret # <<>>) => ~CantUse(k_ret[1])
    /\ (dlgop.op = "OP_GENERIC_SELECT_ENTRY" /\ CantUse(dlgop.key[1])) =>
         /\ dlgop.error = "can't be used"
         /\ dlgop.asked = "none"
         /\ k_ret = <<>>
         /\ ~done
         /\ dstate = "open"

\* An expired key is in the table and OP_GENERIC_SELECT_ENTRY was made on
\* it.
C18_Witness ==
  /\ OptPgpCheckTrust
  /\ dlgop.op = "OP_GENERIC_SELECT_ENTRY"
  /\ "EXPIRED" \in dlgop.key[1].flags
  /\ dstate = "open"

\* C19: a key is returned only by OP_GENERIC_SELECT_ENTRY, and it is the
\* entry the cursor is on; with OptPgpCheckTrust set and an entry whose id
\* is not valid or not strong it is returned only when the question was
\* asked and answered yes, every other answer leaving the dialog open with
\* no key; OP_EXIT ends the dialog with no key.
C19_KeyOnlyBySelectAndConfirm ==
  /\ k_ret # <<>> =>
       /\ dstate = "returned"
       /\ dlgop.op = "OP_GENERIC_SELECT_ENTRY"
       /\ k_ret = dlgop.key
       /\ k_ret[1] = key_table[current + 1]
       /\ (OptPgpCheckTrust
             /\ (~crypt_id_is_valid(k_ret[1])
                   \/ ~crypt_id_is_strong(k_ret[1])))
            => dlgop.asked # "none" /\ dlgop.answer = "MUTT_YES"
  /\ (dlgop.op = "OP_GENERIC_SELECT_ENTRY" /\ dlgop.asked # "none") =>
       /\ OptPgpCheckTrust
       /\ dlgop.answer # "MUTT_YES" =>
            dstate = "open" /\ k_ret = <<>> /\ ~done
  /\ dlgop.op = "OP_EXIT" => dstate = "returned" /\ k_ret = <<>>

\* A marginally valid key was chosen after the answer yes.
C19_Witness ==
  /\ OptPgpCheckTrust
  /\ dstate = "returned"
  /\ k_ret # <<>>
  /\ k_ret[1].validity = 3
  /\ dlgop.asked = "only marginally valid"
  /\ dlgop.answer = "MUTT_YES"

----------------------------------------------------------------------------
(* verify_key: the walk along the chain of issuers *)

\* int maxdepth = 100;
MaxDepth == 100

\* Largest number of keys GPGME knows.
MaxRing == 2

\* A gpgme_key_t is the index of a key of the keyring, NULL for none.  Key i
\* has the fingerprint i (subkeys->fpr); its chain_id is NULL or the
\* fingerprint of its issuer, which may be one no key has; subkeys tells
\* whether its list of subkeys is not empty.
RingKeys(n) == [chain_id : 0..(n + 1), subkeys : BOOLEAN]

\* gpgme_key_ref(k)
GpgmeKeyRef(refs, key) == [refs EXCEPT ![key].taken = @ + 1]

\* GpgmeKeyUnref that releases nothing.
GpgmeKeyUnref_nothing(refs, key) == refs

\* gpgme_key_unref(k): nothing for NULL
GpgmeKeyUnref(refs, key) ==
  IF key = NULL THEN refs ELSE [refs EXCEPT ![key].released = @ + 1]

\* (s = k->chain_id) && k->subkeys && (strcmp(s, k->subkeys->fpr) != 0)
HasIssuer(ring, key) ==
  /\ ring[key].chain_id # NULL
  /\ ring[key].subkeys
  /\ ring[key].chain_id # key

\* What gpgme_op_keylist_start() and gpgme_op_keylist_next() may do for the
\* pattern s: either may fail; a key is found only when the keyring has it.
KeylistOutcomes(ring, s) ==
  {"start failed", "next failed"}
    \cup (IF s \in DOMAIN ring THEN {"found"} ELSE {})

\* Lines 842-857: the temporary file is opened, the key is printed and
\* referenced.  When the file cannot be opened the function ends (cleanup).
VerifyKeyStart ==
  /\ vpc = "start"
  /\ \E opened \in BOOLEAN :
       IF opened
       THEN /\ vout' = <<[w |-> "key info", key |-> 1]>>
            /\ vk' = 1
            /\ vrefs' = GpgmeKeyRef(vrefs, 1)
            /\ vpc' = "loop"
       ELSE /\ vpc' = "done"
            /\ UNCHANGED <<vout, vk, vrefs>>
  /\ UNCHANGED <<keyring, maxdepth>>
  /\ UNCHANGED <<dnVars, aliasVars, cmpVars, dlgVars>>

\* Lines 858-880, one pass of the loop; when it leaves the loop by goto or
\* break, lines 882-904 too.
VerifyKeyIssuer ==
  /\ vpc = "loop"
  /\ HasIssuer(keyring, vk)
  /\ \E res \in KeylistOutcomes(keyring, keyring[vk].chain_id) :
       LET s == keyring[vk].chain_id
           r1 == GpgmeKeyUnref(vrefs, vk)
           o1 == Append(vout, [w |-> "newline", key |-> 0])
       IN IF res # "found"
          THEN /\ vout' = Append(o1, [w |-> "Error finding issuer key",
                                      key |-> 0])
               /\ vk' = NULL
               /\ vrefs' = GpgmeKeyUnref(r1, NULL)
               /\ maxdepth' = maxdepth
               /\ vpc' = "done"
          ELSE LET r2 == GpgmeKeyRef(r1, s)
                   o2 == Append(o1, [w |-> "key info", key |-> s])
               IN /\ vk' = s
                  /\ maxdepth' = maxdepth - 1
                  /\ IF maxdepth - 1 = 0
                     THEN /\ vout' = o2 \o
                                <<[w |-> "newline", key |-> 0],
                                  [w |-> "certification chain too long",
                                   key |-> 0]>>
                          /\ vrefs' = GpgmeKeyUnref(r2, s)
                          /\ vpc' = "done"
                     ELSE /\ vout' = o2
                          /\ vrefs' = r2
                          /\ vpc' = "loop"
  /\ UNCHANGED keyring
  /\ UNCHANGED <<dnVars, aliasVars, cmpVars, dlgVars>>

\* The condition of the loop is false: lines 882-904.
VerifyKeyLeave ==
  /\ vpc = "loop"
  /\ ~HasIssuer(keyring, vk)
  /\ vrefs' = GpgmeKeyUnref(vrefs, vk)
  /\ vpc' = "done"
  /\ UNCHANGED <<keyring, vk, maxdepth, vout>>
  /\ UNCHANGED <<dnVars, aliasVars, cmpVars, dlgVars>>

\* verify_key is called with the first key of the keyring.
InitChain ==
  /\ \E n \in 1..MaxRing :
       /\ keyring \in [1..n -> RingKeys(n)]
       /\ vrefs = [i \in 1..n |-> [taken |-> 0, released |-> 0]]
  /\ vk = NULL
  /\ maxdepth = MaxDepth
  /\ vout = <<>>
  /\ vpc = "start"
  /\ DnIdle
  /\ AliasIdle
  /\ CmpIdle
  /\ DlgIdle

NextChain == VerifyKeyStart \/ VerifyKeyIssuer \/ VerifyKeyLeave

SpecChain == InitChain /\ [][NextChain]_vars

\* verify_key runs on until it returns.
SpecChainLive == SpecChain /\ WF_vars(NextChain)

\* The number of keys printed after the first, and the last thing written.
IssuersPrinted ==
  Cardinality({p \in 2..Len(vout) : vout[p].w = "key info"})

LastWritten == IF vout = <<>> THEN "nothing" ELSE vout[Len(vout)].w

\* What holds of the walk at every moment: no reference is released that was
\* not taken and at most one is held; at most 100 issuers are printed; when
\* verify_key has returned every reference taken has been released, and the
\* walk ended for one of three reasons: the last key printed has no
\* chain_id, no subkeys or is its own issuer (nothing more is written); a
\* lookup failed ('Error finding issuer key' is the last thing written); 100
\* issuers were printed ('certification chain too long' is).
ChainWalkSafe ==
  /\ \A i \in DOMAIN vrefs :
       /\ vrefs[i].released <= vrefs[i].taken
       /\ vpc = "done" => vrefs[i].released = vrefs[i].taken
  /\ Cardinality({i \in DOMAIN vrefs : vrefs[i].taken > vrefs[i].released})
       <= 1
  /\ IssuersPrinted <= 100
  /\ (vpc = "done" /\ vout # <<>>) =>
       /\ LastWritten = "certification chain too long"
            <=> IssuersPrinted = 100
       /\ LastWritten = "key info" =>
            LET key == keyring[vout[Len(vout)].key]
            IN \/ key.chain_id = 0
               \/ ~key.subkeys
               \/ key.chain_id = vout[Len(vout)].key
       /\ LastWritten \in {"key info", "Error finding issuer key",
                           "certification chain too long"}

\* C20: the walk along the chain of issuers always ends, on a chain with a
\* cycle too, for one of the three reasons, every reference taken being
\* released exactly once.
C20_ChainWalkTerminates == []ChainWalkSafe /\ <>(vpc = "done")

\* Two keys that name each other as issuer: the walk ended after 100 issuers.
C20_Witness ==
  /\ vpc = "done"
  /\ Len(keyring) = 2
  /\ keyring[1].chain_id = 2
  /\ keyring[2].chain_id = 1
  /\ IssuersPrinted = 100
  /\ LastWritten = "certification chain too long"
  /\ vrefs[1].taken = 51
  /\ vrefs[1].released = 51

====
